---- MODULE Spec2Model ----
(***************************************************************************)
(* A model of the terrain generator: the planar dual graph built over a    *)
(* Delaunay triangulation, the priority-flood hydrology (flow and flux),    *)
(* the sea-level fix, the region partitioner (habitability, city placement, *)
(* region growth) and the Poisson-disk interior sampler.                    *)
(*                                                                         *)
(* Numbers.  The program computes in f32.  The model computes in integers:  *)
(*   - coordinates are world units (all mesh coordinates are multiples of   *)
(*     3, so every centroid is an integer point);                           *)
(*   - an elevation is an integer number of half world units, so that the   *)
(*     mean of two elevations is again a model elevation;                   *)
(*   - a flux is an integer number of rainfall units (1 / vertex_count);    *)
(*   - a normalised score is an integer number of thousandths, or NaN.      *)
(***************************************************************************)
EXTENDS Integers, Sequences, FiniteSets, Bags, TLC

\* delaunator::EMPTY, the "no opposite half-edge" marker (usize::MAX in the crate).
EMPTY == -1

\* Option::None of an Option<usize> (a flow target, a nearest city).
None == -1

\* f32::NAN.  OrderedFloat orders NaN above every number and equal to itself,
\* which is the order of the integers once NaN is the greatest of them.
NaN == 2147483647

\* OrderedFloat's order.
OrderedLeq(a, b) == a <= b

\* Negation of an f32 (the negation of NaN is NaN).
Neg(x) == IF x = NaN THEN NaN ELSE -x

----------------------------------------------------------------------------
(* Bounds of the model.                                                     *)

\* The greatest input elevation, in world units.
MaxElev == 2

\* The greatest input elevation of a boundary vertex, in world units.
MaxShore == 1

\* The greatest length of an elevation array given to the sea-level fix alone.
MaxLen == 4

\* The greatest number of points the sampler is followed to.
MaxSamples == 6

\* The greatest configured city count.
MaxCities == 2

----------------------------------------------------------------------------
(* Sequences and small arithmetic helpers.                                  *)

\* A Rust Vec (0-based) from a TLA+ tuple.
Vec(seq) == [i \in 0..(Len(seq) - 1) |-> seq[i + 1]]

VecLen(v) == Cardinality(DOMAIN v)

Min2(a, b) == IF a <= b THEN a ELSE b

Max2(a, b) == IF a >= b THEN a ELSE b

SetMin(S) == CHOOSE x \in S : \A y \in S : x <= y

SetMax(S) == CHOOSE x \in S : \A y \in S : x >= y

\* f32::clamp
Clamp(x, lo, hi) == IF x < lo THEN lo ELSE IF x > hi THEN hi ELSE x

\* The elements of a set of integers in ascending order.
RECURSIVE Ascending(_)
Ascending(S) == IF S = {} THEN <<>> ELSE <<SetMin(S)>> \o Ascending(S \ {SetMin(S)})

----------------------------------------------------------------------------
(* The triangulation (delaunator) and the Voronoi structure over it.        *)

\* delaunator::next_halfedge
NextHalfedge(e) == IF e % 3 = 2 THEN e - 2 ELSE e + 1

\* voronoi::triangle_of_edge
TriangleOfEdge(e) == e \div 3

\* voronoi::edge_tuple_of_triangle
EdgeTupleOfTriangle(t) == <<t * 3, t * 3 + 1, t * 3 + 2>>

\* The half-edge opposite to e: the one running between the same two points
\* in the other direction, EMPTY when e lies on the convex hull.
OppositeHalfedge(triangles, e) ==
    LET S == {f \in DOMAIN triangles :
                 /\ triangles[f] = triangles[NextHalfedge(e)]
                 /\ triangles[NextHalfedge(f)] = triangles[e]}
    IN  IF S = {} THEN EMPTY ELSE CHOOSE f \in S : TRUE

\* delaunator::triangulate, given the triangles it finds for the point set:
\* the flat triangle array, the half-edge table over it and the hull points.
GenerateTriangulation(points, tris) ==
    LET triangles == Vec(tris)
        halfedges == [e \in DOMAIN triangles |-> OppositeHalfedge(triangles, e)]
    IN  [triangles |-> triangles,
         halfedges |-> halfedges,
         hull      |-> {triangles[e] : e \in {f \in DOMAIN triangles : halfedges[f] = EMPTY}}]

\* voronoi::centroid
Centroid(a, b, c) == <<(a[1] + b[1] + c[1]) \div 3, (a[2] + b[2] + c[2]) \div 3>>

\* A faulty index: the first incoming half-edge is kept, hull-side or not.
BuildIncomingEdgeIndexFirst(t) ==
    [p \in DOMAIN t.triangles |->
        LET inc == {e \in DOMAIN t.triangles : t.triangles[NextHalfedge(e)] = p}
        IN  IF inc # {} THEN SetMin(inc) ELSE EMPTY]

\* voronoi::build_incoming_edge_index: for each point the last hull-side
\* ("leftmost") incoming half-edge if there is one, else the first incoming one.
\* The index has one slot per half-edge, so slots past the last point stay EMPTY.
BuildIncomingEdgeIndex(t) ==
    [p \in DOMAIN t.triangles |->
        LET inc  == {e \in DOMAIN t.triangles : t.triangles[NextHalfedge(e)] = p}
            left == {e \in inc : t.halfedges[e] = EMPTY}
        IN  IF left # {} THEN SetMax(left)
            ELSE IF inc # {} THEN SetMin(inc)
            ELSE EMPTY]

\* EdgesAroundPoint: the incoming half-edges around a point, from curr on,
\* until the walk is back at last or falls off the hull.
RECURSIVE EdgesAroundPoint(_, _, _)
EdgesAroundPoint(t, curr, last) ==
    IF curr = EMPTY THEN <<>>
    ELSE LET next == t.halfedges[NextHalfedge(curr)]
         IN  <<curr>> \o EdgesAroundPoint(t, IF next # last THEN next ELSE EMPTY, last)

\* Voronoi::new: one vertex per triangle (its centroid), one cell per slot of
\* the incoming-edge index.
VoronoiNew(points, tris) ==
    LET t        == GenerateTriangulation(points, tris)
        P        == Vec(points)
        incoming == BuildIncomingEdgeIndex(t)
        ring(p)  == EdgesAroundPoint(t, incoming[p], incoming[p])
    IN  [triangulation |-> t,
         vertices |-> [v \in 0..(Len(tris) \div 3 - 1) |->
                          Centroid(P[t.triangles[3 * v]], P[t.triangles[3 * v + 1]],
                                   P[t.triangles[3 * v + 2]])],
         cells    |-> [p \in DOMAIN incoming |->
                          [vertices |-> [i \in 1..Len(ring(p)) |-> TriangleOfEdge(ring(p)[i])],
                           hull     |-> p \in t.hull]]]

\* A faulty edge loop: both vertex endpoints are taken from the outgoing
\* half-edge.
RECURSIVE TerrainGraphEdgesOneSided(_, _, _)
TerrainGraphEdgesOneSided(t, i, halfedge_seen) ==
    IF i >= VecLen(t.triangles) THEN <<>>
    ELSE LET inc_halfedge == i
             out_halfedge == t.halfedges[i]
         IN  IF inc_halfedge \in halfedge_seen \/ out_halfedge = EMPTY
             THEN TerrainGraphEdgesOneSided(t, i + 1, halfedge_seen)
             ELSE <<[vertices |-> <<TriangleOfEdge(out_halfedge), TriangleOfEdge(out_halfedge)>>,
                     points   |-> <<t.triangles[out_halfedge], t.triangles[inc_halfedge]>>]>>
                  \o TerrainGraphEdgesOneSided(t, i + 1,
                                               halfedge_seen \cup {inc_halfedge, out_halfedge})

\* TerrainGraph::new, the edge loop from half-edge i on: one edge per pair of
\* opposite half-edges, none for a half-edge on the hull.
RECURSIVE TerrainGraphEdges(_, _, _)
TerrainGraphEdges(t, i, halfedge_seen) ==
    IF i >= VecLen(t.triangles) THEN <<>>
    ELSE LET inc_halfedge == i
             out_halfedge == t.halfedges[i]
         IN  IF inc_halfedge \in halfedge_seen \/ out_halfedge = EMPTY
             THEN TerrainGraphEdges(t, i + 1, halfedge_seen)
             ELSE <<[vertices |-> <<TriangleOfEdge(out_halfedge), TriangleOfEdge(inc_halfedge)>>,
                     points   |-> <<t.triangles[out_halfedge], t.triangles[inc_halfedge]>>]>>
                  \o TerrainGraphEdges(t, i + 1,
                                       halfedge_seen \cup {inc_halfedge, out_halfedge})

\* TerrainGraph::new, the vertex classification: a vertex is Boundary when it
\* is in the cell of a hull point, Interior otherwise.
TerrainGraphNew(points, tris) ==
    LET voronoi  == VoronoiNew(points, tris)
        V        == DOMAIN voronoi.vertices
        bset     == {v \in V : \E p \in voronoi.triangulation.hull :
                        \E i \in DOMAIN voronoi.cells[p].vertices :
                            voronoi.cells[p].vertices[i] = v}
    IN  [points      |-> Vec(points),
         vertices    |-> voronoi.vertices,
         vertex_type |-> [v \in V |-> IF v \in bset THEN "Boundary" ELSE "Interior"],
         boundary    |-> Ascending(bset),
         interior    |-> Ascending(V \ bset),
         edges       |-> TerrainGraphEdges(voronoi.triangulation, 0, {}),
         voronoi     |-> voronoi]

\* A faulty lookup: the vertex type is not asked for.
InteriorConnectedVerticesUnguarded(g, v) ==
    LET he == g.voronoi.triangulation.halfedges
        e  == EdgeTupleOfTriangle(v)
    IN  IF he[e[1]] = EMPTY \/ he[e[2]] = EMPTY \/ he[e[3]] = EMPTY
        THEN [tag |-> "assertion failed", value |-> <<>>]
        ELSE [tag   |-> "Some",
              value |-> <<TriangleOfEdge(he[e[1]]), TriangleOfEdge(he[e[2]]),
                          TriangleOfEdge(he[e[3]])>>]

\* TerrainGraph::interior_connected_vertices: None for a boundary vertex; for
\* an interior one the three neighbours, after the assertion that each of the
\* three half-edges has an opposite.
InteriorConnectedVertices(g, v) ==
    LET he == g.voronoi.triangulation.halfedges
        e  == EdgeTupleOfTriangle(v)
    IN  IF g.vertex_type[v] = "Boundary" THEN [tag |-> "None", value |-> <<>>]
        ELSE IF he[e[1]] = EMPTY \/ he[e[2]] = EMPTY \/ he[e[3]] = EMPTY
        THEN [tag |-> "assertion failed", value |-> <<>>]
        ELSE [tag   |-> "Some",
              value |-> <<TriangleOfEdge(he[e[1]]), TriangleOfEdge(he[e[2]]),
                          TriangleOfEdge(he[e[3]])>>]

\* ConnectedVerticesIterator: the neighbours of vertex v, in half-edge order,
\* skipping the half-edges that have no opposite.
ConnectedVertices(g, v) ==
    LET he == g.voronoi.triangulation.halfedges
        out(k) == he[v * 3 + k]
        one(k) == IF out(k) = EMPTY THEN <<>> ELSE <<TriangleOfEdge(out(k))>>
    IN  one(0) \o one(1) \o one(2)

----------------------------------------------------------------------------
(* The meshes the model runs on.  Each is a Delaunay triangulation of its   *)
(* points: an outer ring and an inner ring of boundary points, as             *)
(* generate_boundary_points lays around the extent, and one sample point in  *)
(* the middle.                                                              *)

PointsA ==
    << <<-120, -120>>, <<120, -120>>, <<120, 120>>, <<-120, 120>>,
       <<-60, -60>>, <<60, -60>>, <<60, 60>>, <<-60, 60>>, <<15, 30>> >>

TrianglesA ==
    << 0, 1, 5,   0, 5, 4,   1, 2, 6,   1, 6, 5,   2, 3, 7,   2, 7, 6,
       3, 0, 4,   3, 4, 7,   8, 4, 5,   8, 5, 6,   8, 6, 7,   8, 7, 4 >>

PointsB ==
    << <<-360, -210>>, <<360, -210>>, <<0, 420>>,
       <<-90, -60>>, <<90, -60>>, <<0, 90>>, <<0, -15>> >>

TrianglesB ==
    << 0, 1, 4,   0, 4, 3,   1, 2, 5,   1, 5, 4,   2, 0, 5,   0, 3, 5,
       6, 3, 4,   6, 4, 5,   6, 5, 3 >>

GraphA == TerrainGraphNew(PointsA, TrianglesA)

GraphB == TerrainGraphNew(PointsB, TrianglesB)

MeshIds == {"A", "B"}

Graph(m) == IF m = "A" THEN GraphA ELSE GraphB

----------------------------------------------------------------------------
(* State.                                                                   *)

VARIABLES
    pc,            \* where the pipeline stands
    mesh,          \* which point set the run is on (its configuration)
    graph,         \* Terrain.graph, built once by TerrainGraph::new
    elevation,     \* TerrainData.elevation
    flow,          \* generate_flow: flow
    seen,          \* generate_flow: seen
    open,          \* generate_flow: open (the priority queue)
    flux,          \* generate_flux: flux, in rainfall units
    cursor,        \* generate_flux: position in graph.interior
    num_cities,    \* TerrainConfig.num_cities
    habitability,  \* Regions.habitability
    scores,        \* Regions::new: scores
    cities,        \* Regions.cities
    nearest_city,  \* generate_regions: nearest_city
    queue,         \* generate_regions: queue (the priority queue)
    regions,       \* Regions.regions
    sampler,       \* the PoissonDiskSampler: points, queued, grid
    sampling,      \* where the sampler stands
    normal,        \* TerrainData.normal
    erosion,       \* TerrainData.erosion, in 1/ErosionOne
    round          \* TerrainData::new: rounds of the erosion loop done

vars == <<pc, mesh, graph, elevation, flow, seen, open, flux, cursor, num_cities,
          habitability, scores, cities, nearest_city, queue, regions, sampler, sampling,
          normal, erosion, round>>

hydroVars == <<flow, seen, open, flux, cursor>>

regionVars == <<num_cities, habitability, scores, cities, nearest_city, queue, regions>>

samplerVars == <<sampler, sampling>>

erosionVars == <<normal, erosion, round>>

\* The number of rounds of the erosion loop in TerrainData::new.
ErosionRounds == 5

terrainVars == <<pc, mesh, graph, elevation, hydroVars, regionVars, erosionVars>>

\* The graph of the run and its vertex indices.
G == graph

Vertices == DOMAIN G.vertices

VertexCount == VecLen(G.vertices)

BoundarySet == {v \in Vertices : G.vertex_type[v] = "Boundary"}

InteriorSet == {v \in Vertices : G.vertex_type[v] = "Interior"}

----------------------------------------------------------------------------
(* util::PriorityQueue, a max-heap on the score.  The heap is a bag of       *)
(* entries; pop takes an entry of greatest score, any of them on a tie.      *)

PriorityQueueNew == EmptyBag

PriorityQueuePush(q, value, score) == q (+) SetToBag({[value |-> value, score |-> score]})

\* The entries pop may return.
PriorityQueueTop(q) ==
    {e \in BagToSet(q) : \A f \in BagToSet(q) : OrderedLeq(f.score, e.score)}

PriorityQueueRemove(q, e) == q (-) SetToBag({e})

----------------------------------------------------------------------------
(* terrain::erosion::generate_flow, the priority flood.                      *)

\* A faulty loop body: the flow target is assigned before the seen test, so a
\* vertex that was seen already has its target overwritten.
RECURSIVE FlowVisitOverwriting(_, _, _, _)
FlowVisitOverwriting(st, next, ns, elev) ==
    IF ns = <<>> THEN st
    ELSE LET neighbor == Head(ns)
             flowed   == [st.flow EXCEPT ![neighbor] = next]
         IN  IF neighbor \in st.seen
             THEN FlowVisitOverwriting([st EXCEPT !.flow = flowed], next, Tail(ns), elev)
             ELSE FlowVisitOverwriting(
                      [flow |-> flowed,
                       seen |-> st.seen \cup {neighbor},
                       open |-> PriorityQueuePush(st.open, neighbor, Neg(elev[neighbor]))],
                      next, Tail(ns), elev)

\* A faulty loop body: the flow target is entered the wrong way round, the
\* popped vertex flowing into its neighbour.
RECURSIVE FlowVisitReversed(_, _, _, _)
FlowVisitReversed(st, next, ns, elev) ==
    IF ns = <<>> THEN st
    ELSE LET neighbor == Head(ns)
         IN  IF neighbor \in st.seen
             THEN FlowVisitReversed(st, next, Tail(ns), elev)
             ELSE FlowVisitReversed(
                      [flow |-> [st.flow EXCEPT ![next] = neighbor],
                       seen |-> st.seen \cup {neighbor},
                       open |-> PriorityQueuePush(st.open, neighbor, Neg(elev[neighbor]))],
                      next, Tail(ns), elev)

\* The body of the while loop for the popped vertex next: every neighbour not
\* yet seen gets next as its flow target, is marked seen and is pushed.
RECURSIVE FlowVisit(_, _, _, _)
FlowVisit(st, next, ns, elev) ==
    IF ns = <<>> THEN st
    ELSE LET neighbor == Head(ns)
         IN  IF neighbor \in st.seen
             THEN FlowVisit(st, next, Tail(ns), elev)
             ELSE FlowVisit([flow |-> [st.flow EXCEPT ![neighbor] = next],
                             seen |-> st.seen \cup {neighbor},
                             open |-> PriorityQueuePush(st.open, neighbor, Neg(elev[neighbor]))],
                            next, Tail(ns), elev)

\* The set-up of generate_flow: every boundary vertex is pushed and seen.
GenerateFlowBegin ==
    /\ pc = "flow"
    /\ flow' = [v \in Vertices |-> None]
    /\ seen' = {G.boundary[i] : i \in DOMAIN G.boundary}
    /\ open' = SetToBag({[value |-> G.boundary[i], score |-> Neg(elevation[G.boundary[i]])] :
                            i \in DOMAIN G.boundary})
    /\ pc' = "flow_loop"
    /\ UNCHANGED <<mesh, graph, elevation, flux, cursor>>
    /\ UNCHANGED regionVars
    /\ UNCHANGED samplerVars
    /\ UNCHANGED erosionVars

\* One iteration of the while loop: pop, visit the neighbours.
GenerateFlowPop ==
    /\ pc = "flow_loop"
    /\ \E e \in PriorityQueueTop(open) :
          LET st == FlowVisit([flow |-> flow, seen |-> seen,
                               open |-> PriorityQueueRemove(open, e)],
                              e.value, ConnectedVertices(G, e.value), elevation)
          IN  /\ flow' = st.flow
              /\ seen' = st.seen
              /\ open' = st.open
    /\ UNCHANGED <<pc, mesh, graph, elevation, flux, cursor>>
    /\ UNCHANGED regionVars
    /\ UNCHANGED samplerVars
    /\ UNCHANGED erosionVars

\* The queue is empty: generate_flow returns, generate_flux starts with the
\* rainfall on every vertex.
GenerateFlowEnd ==
    /\ pc = "flow_loop"
    /\ open = EmptyBag
    /\ flux' = [v \in Vertices |-> 1]
    /\ cursor' = 1
    /\ pc' = "flux"
    /\ UNCHANGED <<mesh, graph, elevation, flow, seen, open>>
    /\ UNCHANGED regionVars
    /\ UNCHANGED samplerVars
    /\ UNCHANGED erosionVars

----------------------------------------------------------------------------
(* terrain::erosion::traverse_flow_graph and generate_flux.                  *)

\* FlowGraphIterator: the vertices the iterator yields from start on, cut
\* after fuel of them (the iterator itself has no such cut).
RECURSIVE TraverseFlowGraph(_, _, _)
TraverseFlowGraph(fl, curr, fuel) ==
    IF curr = None \/ fuel = 0 THEN <<>>
    ELSE <<curr>> \o TraverseFlowGraph(fl, fl[curr], fuel - 1)

\* Whether the iterator from start stops by itself within fuel vertices.
RECURSIVE FlowChainEnds(_, _, _)
FlowChainEnds(fl, curr, fuel) ==
    IF curr = None THEN TRUE
    ELSE IF fuel = 0 THEN FALSE
    ELSE FlowChainEnds(fl, fl[curr], fuel - 1)

\* How often vertex n occurs in a chain.
Occurrences(chain, n) == Cardinality({i \in DOMAIN chain : chain[i] = n})

\* A faulty inner loop: the rainfall unit is added to v alone, not passed on
\* along the chain.
FluxWalkStartOnly(fx, fl, v) == [fx EXCEPT ![v] = @ + 1]

\* A faulty inner loop: the rainfall unit is added along the chain from the
\* flow target of v on, not to v itself.
FluxWalkPastStart(fx, fl, v) ==
    LET chain == TraverseFlowGraph(fl, fl[v], VecLen(fl) + 1)
    IN  [n \in DOMAIN fx |-> fx[n] + Occurrences(chain, n)]

\* The inner loop of generate_flux for the interior vertex v: one rainfall
\* unit is added to every vertex the iterator yields, v itself included.
FluxWalk(fx, fl, v) ==
    LET chain == TraverseFlowGraph(fl, v, VecLen(fl) + 1)
    IN  [n \in DOMAIN fx |-> fx[n] + Occurrences(chain, n)]

\* One iteration of the loop over graph.interior.  A chain that never ends
\* keeps the loop from ever returning.
GenerateFluxStep ==
    /\ pc = "flux"
    /\ cursor <= Len(G.interior)
    /\ IF FlowChainEnds(flow, G.interior[cursor], VertexCount + 1)
       THEN /\ flux' = FluxWalk(flux, flow, G.interior[cursor])
            /\ cursor' = cursor + 1
            /\ pc' = pc
       ELSE /\ pc' = "diverged"
            /\ UNCHANGED <<flux, cursor>>
    /\ UNCHANGED <<mesh, graph, elevation, flow, seen, open>>
    /\ UNCHANGED regionVars
    /\ UNCHANGED samplerVars
    /\ UNCHANGED erosionVars

GenerateFluxEnd ==
    /\ pc = "flux"
    /\ cursor > Len(G.interior)
    /\ pc' = "sealevel"
    /\ UNCHANGED <<mesh, graph, elevation>>
    /\ UNCHANGED hydroVars
    /\ UNCHANGED regionVars
    /\ UNCHANGED samplerVars
    /\ UNCHANGED erosionVars

----------------------------------------------------------------------------
(* terrain_data: median, set_sealevel, set_median_sealevel.                  *)

\* A Vec sorted ascending (sort_by partial_cmp).
RECURSIVE SortedInsert(_, _)
SortedInsert(s, x) ==
    IF s = <<>> THEN <<x>>
    ELSE IF x <= Head(s) THEN <<x>> \o s
    ELSE <<Head(s)>> \o SortedInsert(Tail(s), x)

RECURSIVE SortFrom(_, _, _)
SortFrom(arr, i, acc) ==
    IF i >= VecLen(arr) THEN acc ELSE SortFrom(arr, i + 1, SortedInsert(acc, arr[i]))

Sorted(arr) == Vec(SortFrom(arr, 0, <<>>))

\* Whether median indexes past the end of the sorted array (a panic).
MedianPanics(arr) ==
    LET len == VecLen(arr)
        mid == len \div 2
    IN  len % 2 = 0 /\ mid + 1 >= len

\* median: the value the function returns when it does not panic.
Median(arr) ==
    LET sorted == Sorted(arr)
        len    == VecLen(arr)
        mid    == len \div 2
    IN  IF len % 2 = 0
        THEN (sorted[mid] + sorted[mid + 1]) \div 2
        ELSE sorted[mid]

\* set_sealevel
SetSealevel(arr, sealevel) == [i \in DOMAIN arr |-> arr[i] - sealevel]

\* set_median_sealevel, where median returns
SetMedianSealevel(arr) == SetSealevel(arr, Median(arr))

\* The sea-level fix that ends TerrainData::new.
SeaLevelFix ==
    /\ pc = "sealevel"
    /\ IF MedianPanics(elevation)
       THEN pc' = "median_panic" /\ UNCHANGED elevation
       ELSE pc' = "terrain" /\ elevation' = SetMedianSealevel(elevation)
    /\ UNCHANGED <<mesh, graph>>
    /\ UNCHANGED hydroVars
    /\ UNCHANGED regionVars
    /\ UNCHANGED samplerVars
    /\ UNCHANGED erosionVars

----------------------------------------------------------------------------
(* Geometry of a run: the terrain extent and the distances between vertices. *)

\* Terrain.extent = Rect::from_wh(config.size), a rectangle centred on the
\* origin.  As in generate_points, the extent holds the sample point and lies
\* within the two rings of boundary points: mesh A belongs to a 100 x 80
\* domain, mesh B to a 120 x 120 one.  A vertex may lie outside the extent.
ExtentOfSize(w, h) ==
    [x |-> [start |-> -(w \div 2), end |-> w \div 2],
     y |-> [start |-> -(h \div 2), end |-> h \div 2]]

Extent(m) == IF m = "A" THEN ExtentOfSize(100, 80) ELSE ExtentOfSize(120, 120)

\* floor(sqrt(n)) by bisection, for the larger numbers.
RECURSIVE SqrtBetween(_, _, _)
SqrtBetween(n, lo, hi) ==
    IF hi - lo <= 1 THEN lo
    ELSE LET mid == (lo + hi) \div 2
         IN  IF mid * mid <= n THEN SqrtBetween(n, mid, hi) ELSE SqrtBetween(n, lo, mid)

\* 46341 is the least number whose square no longer fits a 32-bit integer.
Sqrt(n) == SqrtBetween(n, 0, Min2(n + 1, 46341))

\* Vec2::distance, in whole world units (rounded down).
Vec2Distance(p, q) ==
    Sqrt((p[1] - q[1]) * (p[1] - q[1]) + (p[2] - q[2]) * (p[2] - q[2]))

\* The distance between the vertices a and b of graph g.
Distance(g, a, b) == Vec2Distance(g.vertices[a], g.vertices[b])

----------------------------------------------------------------------------
(* util: map_clamp, minmax, normalize.  A normalised score is counted in      *)
(* thousandths, the factors that scale a score in hundredths (so that a raw   *)
(* score, the product of three factors, is counted in millionths).           *)

\* The value 1.0 of a score, and of a factor.
ScoreOne == 1000

FactorOne == 100

\* map_clamp(val, 0, in_max, 0, 1) as a factor: val / in_max, clamped to [0, 1].
MapClamp(val, in_max) == Clamp((val * FactorOne) \div in_max, 0, FactorOne)

\* The flux bound of the habitability score is 0.05, that is 1 / 20.
FluxCapInverse == 20

\* The width of the ramp at the domain edge, in world units.
EdgeRamp == 100

\* The radius within which a city suppresses the scores, in world units.
CityRamp == 100

\* util::normalize: min-max normalisation.  With all entries equal the
\* division is 0 / 0 and every entry becomes NaN.
Normalize(arr) ==
    IF DOMAIN arr = {} THEN arr
    ELSE LET min == SetMin({arr[i] : i \in DOMAIN arr})
             max == SetMax({arr[i] : i \in DOMAIN arr})
         IN  [i \in DOMAIN arr |->
                 IF max = min THEN NaN
                 ELSE ((arr[i] - min) * ScoreOne) \div (max - min)]

----------------------------------------------------------------------------
(* regions: generate_habitability.                                           *)

\* A faulty score: the sea test is left out, only boundary vertices stay at 0.
RawHabitabilityAnyLevel(g, extent, elev, fx, i) ==
    LET vertex      == g.vertices[i]
        dist_x_edge == Min2(vertex[1] - extent.x.start, extent.x.end - vertex[1])
        dist_y_edge == Min2(vertex[2] - extent.x.start, extent.y.end - vertex[2])
    IN  IF g.vertex_type[i] = "Boundary" THEN 0
        ELSE MapClamp(fx[i] * FluxCapInverse, VecLen(fx))
               * MapClamp(dist_x_edge, EdgeRamp)
               * MapClamp(dist_y_edge, EdgeRamp)

\* The score of vertex i before normalisation.
RawHabitability(g, extent, elev, fx, i) ==
    LET vertex      == g.vertices[i]
        dist_x_edge == Min2(vertex[1] - extent.x.start, extent.x.end - vertex[1])
        dist_y_edge == Min2(vertex[2] - extent.x.start, extent.y.end - vertex[2])
    IN  IF g.vertex_type[i] = "Boundary" THEN 0
        ELSE IF elev[i] < 0 THEN 0
        ELSE MapClamp(fx[i] * FluxCapInverse, VecLen(fx))
               * MapClamp(dist_x_edge, EdgeRamp)
               * MapClamp(dist_y_edge, EdgeRamp)

GenerateHabitability(g, extent, elev, fx) ==
    Normalize([i \in DOMAIN g.vertices |-> RawHabitability(g, extent, elev, fx, i)])

----------------------------------------------------------------------------
(* regions: Regions::new, the city placement.                                *)

\* position_max over OrderedFloat: the position of the last greatest entry;
\* unwrap_or(0) for an empty array.
PositionMax(arr) ==
    IF DOMAIN arr = {} THEN 0
    ELSE SetMax({i \in DOMAIN arr : \A j \in DOMAIN arr : OrderedLeq(arr[j], arr[i])})

\* A faulty suppression: the scores are left as they are.
KeepScores(g, sc, city_index) == sc

\* The score array after a city is placed at city_index.
SuppressScores(g, sc, city_index) ==
    [i \in DOMAIN sc |->
        IF sc[i] = NaN THEN NaN
        ELSE (sc[i] * MapClamp(Distance(g, i, city_index), CityRamp)) \div FactorOne]

\* Regions::new up to the city loop: the configuration's city count is read,
\* the habitability is computed and copied into the scores.
RegionsNewBegin ==
    /\ pc = "terrain"
    /\ \E n \in 0..MaxCities : num_cities' = n
    /\ habitability' = GenerateHabitability(graph, Extent(mesh), elevation, flux)
    /\ scores' = GenerateHabitability(graph, Extent(mesh), elevation, flux)
    /\ cities' = <<>>
    /\ pc' = "cities"
    /\ UNCHANGED <<mesh, graph, elevation, nearest_city, queue, regions>>
    /\ UNCHANGED hydroVars
    /\ UNCHANGED samplerVars
    /\ UNCHANGED erosionVars

\* One round of the city loop.
PlaceCity ==
    /\ pc = "cities"
    /\ Len(cities) < num_cities
    /\ cities' = Append(cities, PositionMax(scores))
    /\ scores' = SuppressScores(graph, scores, PositionMax(scores))
    /\ UNCHANGED <<pc, mesh, graph, elevation, num_cities, habitability, nearest_city, queue, regions>>
    /\ UNCHANGED hydroVars
    /\ UNCHANGED samplerVars
    /\ UNCHANGED erosionVars

----------------------------------------------------------------------------
(* regions: calculate_travel_cost and generate_regions.  A cost is counted   *)
(* in hundredths of a world unit.                                            *)

WaterCost == 100

CoastCost == 1000

\* 100 * sqrt(flux), the flux being fx rainfall units of 1 / n each.
RiverCost(fx, n) == Sqrt((10000 * fx) \div n)

\* A faulty calculate_travel_cost: the test for a crossing of the coast comes
\* before the test for water.
TravelCostCoastFirst(g, elev, fx, a, b) ==
    LET delta_pos  == Distance(g, a, b)
        elev_a     == elev[a]
        elev_b     == elev[b]
        delta_elev == elev_b - elev_a
        cost_elev  == IF delta_elev > 0
                      THEN (25 * delta_elev * delta_elev) \div (400 * Max2(delta_pos, 1))
                      ELSE (25 * delta_elev * delta_elev) \div (4 * Max2(delta_pos, 1))
    IN  IF (elev_a >= 0) # (elev_b >= 0) THEN delta_pos * CoastCost * 100
        ELSE IF elev_a < 0 THEN delta_pos * WaterCost * 100
        ELSE IF delta_pos = 0 THEN NaN
        ELSE delta_pos * 100 + cost_elev + delta_pos * 100 * RiverCost(fx[a], VecLen(fx))

TravelCost(g, elev, fx, a, b) ==
    LET delta_pos  == Distance(g, a, b)
        elev_a     == elev[a]
        elev_b     == elev[b]
        delta_elev == elev_b - elev_a
        \* 0.25 * (delta_elev / delta_pos)^2 * delta_pos, in hundredths; the
        \* elevations are half units, an uphill delta is divided by 10 first
        cost_elev  == IF delta_elev > 0
                      THEN (25 * delta_elev * delta_elev) \div (400 * Max2(delta_pos, 1))
                      ELSE (25 * delta_elev * delta_elev) \div (4 * Max2(delta_pos, 1))
    IN  IF elev_a < 0 THEN delta_pos * WaterCost * 100
        ELSE IF (elev_a >= 0) # (elev_b >= 0) THEN delta_pos * CoastCost * 100
        \* delta_elev / 0 is infinite or NaN, and 0 times either is NaN
        ELSE IF delta_pos = 0 THEN NaN
        ELSE delta_pos * 100 + cost_elev + delta_pos * 100 * RiverCost(fx[a], VecLen(fx))

\* The pushes for the neighbours ns of a vertex won by city.
RECURSIVE PushNeighbors(_, _, _, _, _, _)
PushNeighbors(q, city, ns, g, elev, fx) ==
    IF ns = <<>> THEN q
    ELSE PushNeighbors(
             PriorityQueuePush(q, [city |-> city, vert |-> Head(ns)],
                               Neg(TravelCost(g, elev, fx, city, Head(ns)))),
             city, Tail(ns), g, elev, fx)

\* A faulty first loop: the neighbours of each city are pushed, but the city
\* is not entered as its own nearest city.
RECURSIVE SeedCitiesUnmarked(_, _, _, _, _)
SeedCitiesUnmarked(st, cs, g, elev, fx) ==
    IF cs = <<>> THEN st
    ELSE SeedCitiesUnmarked(
             [st EXCEPT !.queue = PushNeighbors(st.queue, Head(cs),
                                                ConnectedVertices(g, Head(cs)), g, elev, fx)],
             Tail(cs), g, elev, fx)

\* The first loop of generate_regions: each city is its own nearest city and
\* its neighbours are pushed.
RECURSIVE SeedCities(_, _, _, _, _)
SeedCities(st, cs, g, elev, fx) ==
    IF cs = <<>> THEN st
    ELSE SeedCities(
             [nearest_city |-> [st.nearest_city EXCEPT ![Head(cs)] = Head(cs)],
              queue |-> PushNeighbors(st.queue, Head(cs),
                                      ConnectedVertices(g, Head(cs)), g, elev, fx)],
             Tail(cs), g, elev, fx)

\* The city loop is over: generate_regions is called and seeds the queue.
GenerateRegionsBegin ==
    /\ pc = "cities"
    /\ Len(cities) = num_cities
    /\ LET st == SeedCities([nearest_city |-> [v \in Vertices |-> None],
                             queue |-> PriorityQueueNew],
                            cities, graph, elevation, flux)
       IN  /\ nearest_city' = st.nearest_city
           /\ queue' = st.queue
    /\ pc' = "regions"
    /\ UNCHANGED <<mesh, graph, elevation, num_cities, habitability, scores, cities, regions>>
    /\ UNCHANGED hydroVars
    /\ UNCHANGED samplerVars
    /\ UNCHANGED erosionVars

\* A faulty iteration of the while loop: the popped vertex is given the
\* popped city whether it has a city already or not.
GenerateRegionsPopOverwriting ==
    /\ pc = "regions"
    /\ \E e \in PriorityQueueTop(queue) :
          /\ nearest_city' = [nearest_city EXCEPT ![e.value.vert] = e.value.city]
          /\ queue' = IF nearest_city[e.value.vert] # None
                      THEN PriorityQueueRemove(queue, e)
                      ELSE PushNeighbors(PriorityQueueRemove(queue, e), e.value.city,
                                         ConnectedVertices(G, e.value.vert),
                                         graph, elevation, flux)
    /\ UNCHANGED <<pc, mesh, graph, elevation, num_cities, habitability, scores, cities, regions>>
    /\ UNCHANGED hydroVars
    /\ UNCHANGED samplerVars
    /\ UNCHANGED erosionVars

\* One iteration of the while loop: pop; a vertex that has a city already is
\* skipped, any other is given the popped city and its neighbours are pushed.
GenerateRegionsPop ==
    /\ pc = "regions"
    /\ \E e \in PriorityQueueTop(queue) :
          LET city == e.value.city
              vert == e.value.vert
              rest == PriorityQueueRemove(queue, e)
          IN  IF nearest_city[vert] # None
              THEN /\ queue' = rest
                   /\ UNCHANGED nearest_city
              ELSE /\ nearest_city' = [nearest_city EXCEPT ![vert] = city]
                   /\ queue' = PushNeighbors(rest, city, ConnectedVertices(G, vert),
                                             graph, elevation, flux)
    /\ UNCHANGED <<pc, mesh, graph, elevation, num_cities, habitability, scores, cities, regions>>
    /\ UNCHANGED hydroVars
    /\ UNCHANGED samplerVars
    /\ UNCHANGED erosionVars

\* The queue is empty: every nearest city is unwrapped into the region array.
\* Unwrapping a None panics.
GenerateRegionsEnd ==
    /\ pc = "regions"
    /\ queue = EmptyBag
    /\ IF \E v \in Vertices : nearest_city[v] = None
       THEN pc' = "unwrap_panic" /\ UNCHANGED regions
       ELSE pc' = "done" /\ regions' = nearest_city
    /\ UNCHANGED <<mesh, graph, elevation, num_cities, habitability, scores, cities, nearest_city, queue>>
    /\ UNCHANGED hydroVars
    /\ UNCHANGED samplerVars
    /\ UNCHANGED erosionVars

----------------------------------------------------------------------------
(* The pipeline: TerrainData::new's hydrology and sea-level fix, then        *)
(* Regions::new, on a mesh and an elevation array drawn from bounded sets.   *)

\* Input elevations: whole world units, counted in half units.  The input is
\* the elevation array as the last round of erode leaves it, from which
\* TerrainData::new computes the flow and the flux it returns.
Levels == {2 * k : k \in 0..MaxElev}

ShoreLevels == {2 * k : k \in 0..MaxShore}

\* The pairs of shore levels a mesh is run with.  Mesh A has eight boundary
\* vertices; its two shore levels differ, which keeps the number of orders in
\* which equal boundary vertices can be popped small.
ShorePairs(m) ==
    IF m = "A" THEN {b \in ShoreLevels \X ShoreLevels : b[1] < b[2]}
    ELSE ShoreLevels \X ShoreLevels

\* The input elevation arrays of mesh m with graph g: any level on each
\* interior vertex, one shore level on the boundary vertices at even positions
\* of graph.boundary and one on those at odd positions.
ElevationInputs(m, g) ==
    LET inner  == {g.interior[i] : i \in DOMAIN g.interior}
        pos(v) == CHOOSE i \in DOMAIN g.boundary : g.boundary[i] = v
    IN  {[v \in DOMAIN g.vertices |->
             IF v \in inner THEN ei[v] ELSE IF pos(v) % 2 = 0 THEN b[1] ELSE b[2]] :
         ei \in [inner -> Levels], b \in ShorePairs(m)}

Init ==
    /\ pc = "flow"
    /\ mesh \in MeshIds
    /\ graph = Graph(mesh)
    /\ elevation \in ElevationInputs(mesh, graph)
    /\ flow = <<>>
    /\ seen = {}
    /\ open = EmptyBag
    /\ flux = <<>>
    /\ cursor = 0
    /\ num_cities = 0
    /\ habitability = <<>>
    /\ scores = <<>>
    /\ cities = <<>>
    /\ nearest_city = <<>>
    /\ queue = EmptyBag
    /\ regions = <<>>
    /\ normal = <<>>
    /\ erosion = <<>>
    /\ round = ErosionRounds
    /\ sampler = <<>>
    /\ sampling = "off"

Next ==
    \/ GenerateFlowBegin
    \/ GenerateFlowPop
    \/ GenerateFlowEnd
    \/ GenerateFluxStep
    \/ GenerateFluxEnd
    \/ SeaLevelFix
    \/ RegionsNewBegin
    \/ PlaceCity
    \/ GenerateRegionsBegin
    \/ GenerateRegionsPop
    \/ GenerateRegionsEnd

Spec == Init /\ [][Next]_vars

----------------------------------------------------------------------------
(* TerrainData::new from the first hydrology pass to the sea-level fix:      *)
(* generate_normal, generate_erosion, erode and the erosion loop.            *)

\* Erosion values are counted in 1/ErosionOne: one unit of erosion, scaled by
\* the 500.0 that TerrainData::new passes to erode, is one world unit.
ErosionOne == 500

\* EROSION_MIN and EROSION_MAX, in 1/ErosionOne.
ErosionMin == 0

ErosionMax == 10

\* The components of a normal are counted in thousandths.
NormalOne == 1000

\* Division of f32 values, cut towards zero on the integers.
TruncDiv(a, b) ==
    LET q == (IF a < 0 THEN -a ELSE a) \div (IF b < 0 THEN -b ELSE b)
    IN  IF (a < 0) = (b < 0) THEN q ELSE -q

\* Vec3::cross(pb - pa, pc - pa).normalize_or_zero() for the three points
\* qa, qb, qc, each <<x, y, z>> with x and y in world units and z in half
\* world units.  The cross product is (cx / 2, cy / 2, cz); where cz is not
\* zero its direction is that of (gx, gy, 1) with gx = cx / (2 cz) and
\* gy = cy / (2 cz), taken here in thousandths.
SurfaceNormal(qa, qb, qc) ==
    LET ux == qb[1] - qa[1]
        uy == qb[2] - qa[2]
        uz == qb[3] - qa[3]
        wx == qc[1] - qa[1]
        wy == qc[2] - qa[2]
        wz == qc[3] - qa[3]
        cx == uy * wz - uz * wy
        cy == uz * wx - ux * wz
        cz == ux * wy - uy * wx
        gx == TruncDiv(cx * (NormalOne \div 2), cz)
        gy == TruncDiv(cy * (NormalOne \div 2), cz)
        sign == IF cz < 0 THEN -1 ELSE 1
        len == Sqrt(gx * gx + gy * gy + NormalOne * NormalOne)
        flat == Sqrt(cx * cx + cy * cy)
    IN  IF cz # 0
        THEN <<TruncDiv(sign * gx * NormalOne, len), TruncDiv(sign * gy * NormalOne, len),
               TruncDiv(sign * NormalOne * NormalOne, len)>>
        ELSE IF flat = 0 THEN <<0, 0, 0>>
        ELSE <<TruncDiv(cx * NormalOne, flat), TruncDiv(cy * NormalOne, flat), 0>>

\* A faulty generate_normal: every vertex, the boundary ones included, gets
\* the same tilted normal.
GenerateNormalEverywhere(g, elev) ==
    [v \in DOMAIN elev |-> <<NormalOne \div 2, NormalOne \div 2, NormalOne \div 2>>]

\* generate_normal: zero on every vertex but the interior ones, which get the
\* normal of the plane through their three neighbours.
GenerateNormalOf(g, elev) ==
    [v \in DOMAIN elev |->
        IF v \in {g.interior[i] : i \in DOMAIN g.interior}
        THEN LET ns == InteriorConnectedVertices(g, v).value
                 p(n) == <<g.vertices[n][1], g.vertices[n][2], elev[n]>>
             IN  SurfaceNormal(p(ns[1]), p(ns[2]), p(ns[3]))
        ELSE <<0, 0, 0>>]

\* A faulty generate_erosion: the result is not clamped.
GenerateErosionUnclamped(g, fx, normals) ==
    [i \in DOMAIN g.vertices |->
        LET scalar == normals[i][1] * normals[i][1] + normals[i][2] * normals[i][2]
            root   == Sqrt((NormalOne * NormalOne * fx[i]) \div VecLen(fx))
        IN  (scalar * root + scalar) \div ((NormalOne * NormalOne * NormalOne) \div ErosionOne)]

\* generate_erosion.  scalar is in millionths, root (the square root of the
\* flux) and the creep rate 0.001 in thousandths, the sum in 1/ErosionOne.
GenerateErosionOf(g, fx, normals) ==
    [i \in DOMAIN g.vertices |->
        LET scalar == normals[i][1] * normals[i][1] + normals[i][2] * normals[i][2]
            root   == Sqrt((NormalOne * NormalOne * fx[i]) \div VecLen(fx))
        IN  Clamp((scalar * root + scalar)
                     \div ((NormalOne * NormalOne * NormalOne) \div ErosionOne),
                  ErosionMin, ErosionMax)]

\* The scalar TerrainData::new passes to erode.
ErodeScalar == 500

\* A faulty erode: the erosion is added.
ErodeRaising(elev, eros, scalar) ==
    [i \in DOMAIN elev |-> elev[i] + 2 * ((eros[i] * scalar) \div ErosionOne)]

\* erode: elevation in half world units.
Erode(elev, eros, scalar) ==
    [i \in DOMAIN elev |-> elev[i] - 2 * ((eros[i] * scalar) \div ErosionOne)]

\* generate_flux returns to TerrainData::new, which goes on to the normals.
GenerateFluxReturn ==
    /\ pc = "flux"
    /\ cursor > Len(G.interior)
    /\ pc' = "normal"
    /\ UNCHANGED <<mesh, graph, elevation>>
    /\ UNCHANGED hydroVars
    /\ UNCHANGED regionVars
    /\ UNCHANGED samplerVars
    /\ UNCHANGED erosionVars

\* generate_normal; the unwrap panics on an interior vertex without its three
\* neighbours.
GenerateNormal ==
    /\ pc = "normal"
    /\ IF \E i \in DOMAIN G.interior :
              InteriorConnectedVertices(G, G.interior[i]).tag # "Some"
       THEN pc' = "normal_panic" /\ UNCHANGED normal
       ELSE pc' = "erosion" /\ normal' = GenerateNormalOf(G, elevation)
    /\ UNCHANGED <<mesh, graph, elevation, erosion, round>>
    /\ UNCHANGED hydroVars
    /\ UNCHANGED regionVars
    /\ UNCHANGED samplerVars

\* generate_erosion, which ends a pass; the loop goes on while rounds are left.
GenerateErosion ==
    /\ pc = "erosion"
    /\ erosion' = GenerateErosionOf(G, flux, normal)
    /\ pc' = IF round < ErosionRounds THEN "erode" ELSE "sealevel"
    /\ UNCHANGED <<mesh, graph, elevation, normal, round>>
    /\ UNCHANGED hydroVars
    /\ UNCHANGED regionVars
    /\ UNCHANGED samplerVars

\* The head of a round: erode, then the next pass starts with generate_flow.
ErodeRound ==
    /\ pc = "erode"
    /\ elevation' = Erode(elevation, erosion, ErodeScalar)
    /\ round' = round + 1
    /\ pc' = "flow"
    /\ UNCHANGED <<mesh, graph, normal, erosion>>
    /\ UNCHANGED hydroVars
    /\ UNCHANGED regionVars
    /\ UNCHANGED samplerVars

\* The elevations the erosion runs start from, in half world units: low,
\* gentle or steep ground on each interior vertex, and on the boundary
\* vertices a gentle rise along graph.boundary.
ErosionLevels == {0, 20, 120}

ErosionInputs(g) ==
    LET inner  == {g.interior[i] : i \in DOMAIN g.interior}
        pos(v) == CHOOSE i \in DOMAIN g.boundary : g.boundary[i] = v
    IN  {[v \in DOMAIN g.vertices |-> IF v \in inner THEN ei[v] ELSE 2 * pos(v)] :
         ei \in [inner -> ErosionLevels]}

ErosionInit ==
    /\ pc = "flow"
    /\ mesh \in MeshIds
    /\ graph = Graph(mesh)
    /\ elevation \in ErosionInputs(graph)
    /\ flow = <<>>
    /\ seen = {}
    /\ open = EmptyBag
    /\ flux = <<>>
    /\ cursor = 0
    /\ num_cities = 0
    /\ habitability = <<>>
    /\ scores = <<>>
    /\ cities = <<>>
    /\ nearest_city = <<>>
    /\ queue = EmptyBag
    /\ regions = <<>>
    /\ sampler = <<>>
    /\ sampling = "off"
    /\ normal = <<>>
    /\ erosion = <<>>
    /\ round = 0

ErosionNext ==
    \/ GenerateFlowBegin
    \/ GenerateFlowPop
    \/ GenerateFlowEnd
    \/ GenerateFluxStep
    \/ GenerateFluxReturn
    \/ GenerateNormal
    \/ GenerateErosion
    \/ ErodeRound
    \/ SeaLevelFix

SpecErosion == ErosionInit /\ [][ErosionNext]_vars

----------------------------------------------------------------------------
(* The sea-level fix on its own: set_median_sealevel applied to the          *)
(* elevation arrays of every length up to MaxLen.                            *)

\* Elevations for the arrays: as many levels as the longest array has
\* entries, so that arrays of pairwise distinct elevations are among them.
SeaLevels == {2 * k : k \in 0..(MaxLen - 1)}

SeaInputs == UNION {[0..(n - 1) -> SeaLevels] : n \in 0..MaxLen}

SeaInit ==
    /\ pc = "sealevel"
    /\ mesh = "none"
    /\ graph = <<>>
    /\ elevation \in SeaInputs
    /\ flow = <<>>
    /\ seen = {}
    /\ open = EmptyBag
    /\ flux = <<>>
    /\ cursor = 0
    /\ num_cities = 0
    /\ habitability = <<>>
    /\ scores = <<>>
    /\ cities = <<>>
    /\ nearest_city = <<>>
    /\ queue = EmptyBag
    /\ regions = <<>>
    /\ normal = <<>>
    /\ erosion = <<>>
    /\ round = ErosionRounds
    /\ sampler = <<>>
    /\ sampling = "off"

SeaNext == SeaLevelFix

SpecSea == SeaInit /\ [][SeaNext]_vars

----------------------------------------------------------------------------
(* generate_terrain up to the end of util::poisson, the interior sampler.    *)
(* Points are lattice points.  A candidate lies at distance radius + 0.0001   *)
(* from the point it is thrown from, in one of 30 evenly spaced directions;   *)
(* in the model it lies at distance radius exactly, in one of the twelve      *)
(* lattice directions of that length.                                        *)

\* The configurations generate_terrain is called with: a 6 x 6 domain with
\* radius 5; domains narrower than the radius (4 x 4, and 2 x 2 whose diagonal
\* is shorter than the radius too); a domain of size zero; a radius of zero.
TerrainConfigs ==
    { [radius |-> 5, size |-> <<6, 6>>],
      [radius |-> 5, size |-> <<4, 4>>],
      [radius |-> 5, size |-> <<2, 2>>],
      [radius |-> 5, size |-> <<0, 0>>],
      [radius |-> 0, size |-> <<6, 6>>] }

\* The radius and the extent held by the sampler (PoissonDiskSampler).
SamplerConfig == [radius |-> sampler.radius, size |-> sampler.size]

SamplerExtent == ExtentOfSize(SamplerConfig.size[1], SamplerConfig.size[2])

\* The candidate offsets around a point, counter-clockwise.
Directions ==
    << <<5, 0>>, <<4, 3>>, <<3, 4>>, <<0, 5>>, <<-3, 4>>, <<-4, 3>>,
       <<-5, 0>>, <<-4, -3>>, <<-3, -4>>, <<0, -5>>, <<3, -4>>, <<4, -3>> >>

\* floor(d / cell_size) for d >= 0, with cell_size = radius / sqrt(2): the
\* greatest k with k * radius / sqrt(2) <= d.
CellCoord(d, radius) ==
    SetMax({k \in 0..(2 * d) : k * k * radius * radius <= 2 * d * d})

\* ceil(w / cell_size): the least k with k * radius / sqrt(2) >= w.
GridSize(w, radius) ==
    SetMin({k \in 0..(2 * w + 1) : k * k * radius * radius >= 2 * w * w})

GridCols == GridSize(SamplerConfig.size[1], SamplerConfig.radius)

GridRows == GridSize(SamplerConfig.size[2], SamplerConfig.radius)

\* Rect::contains (both ends included)
RectContains(extent, p) ==
    /\ extent.x.start <= p[1] /\ p[1] <= extent.x.end
    /\ extent.y.start <= p[2] /\ p[2] <= extent.y.end

\* PoissonDiskSampler::cell
SamplerCell(p) ==
    <<CellCoord(p[1] - SamplerExtent.x.start, SamplerConfig.radius),
      CellCoord(p[2] - SamplerExtent.y.start, SamplerConfig.radius)>>

\* SampleGrid::get and SampleGrid::set index the flat grid
GridIndex(cell) == cell[1] + cell[2] * GridCols

DistanceSquared(p, q) ==
    (p[1] - q[1]) * (p[1] - q[1]) + (p[2] - q[2]) * (p[2] - q[2])

\* near_point_in_cell were it to find no point near in any cell.
NearPointInCellNever(sm, p, cell) == FALSE

\* PoissonDiskSampler::near_point_in_cell
NearPointInCell(sm, p, cell) ==
    LET i == sm.grid[GridIndex(cell)]
    IN  /\ i # None
        /\ DistanceSquared(sm.points[i + 1], p) < SamplerConfig.radius * SamplerConfig.radius

\* PoissonDiskSampler::near_point_in_grid, with span = 2
NearPointInGrid(sm, p) ==
    \E c \in {SamplerCell(p)} :
        LET x_min == Max2(c[1] - 2, 0)
            y_min == Max2(c[2] - 2, 0)
            x_max == Min2(c[1] + 2 + 1, GridCols)
            y_max == Min2(c[2] + 2 + 1, GridRows)
        IN  \E y \in y_min..(y_max - 1) : \E x \in x_min..(x_max - 1) :
                NearPointInCell(sm, p, <<x, y>>)

\* The candidate of attempt i (from 0) when the walk around near starts in
\* direction start.
Candidate(near, start, i) ==
    LET d == Directions[((start + i) % Len(Directions)) + 1]
    IN  <<near[1] + d[1], near[2] + d[2]>>

\* Whether a candidate is returned by generate_sample.
Acceptable(sm, p) == RectContains(SamplerExtent, p) /\ ~NearPointInGrid(sm, p)

\* The directions in which the candidate thrown from near is acceptable.
GoodDirections(sm, near) ==
    {d \in 0..(Len(Directions) - 1) : Acceptable(sm, Candidate(near, d, 0))}

\* PoissonDiskSampler::generate_sample: the attempts that yield an acceptable
\* candidate when the walk starts in direction start; the first of them is
\* returned, None when there is none.
GoodAttempts(good, start) ==
    {i \in 0..(Len(Directions) - 1) : ((start + i) % Len(Directions)) \in good}

\* poisson: the grid of the sampler as constructed, before generate_samples
\* runs.
SamplerNew == [c \in 0..(GridRows * GridCols - 1) |-> None]

\* A sequence without its entry at position i (Vec::remove; i from 0).
RemoveAt(seq, i) ==
    [k \in 1..(Len(seq) - 1) |-> IF k <= i THEN seq[k] ELSE seq[k + 1]]

\* Whether the grid of the sampler cannot be allocated: with a radius of
\* zero the cell size is zero, each grid dimension is the largest u32 and
\* vec! is asked for more than the address space.
GridTooLarge ==
    /\ SamplerConfig.radius = 0
    /\ SamplerConfig.size[1] > 0
    /\ SamplerConfig.size[2] > 0

\* generate_terrain up to generate_samples: the extent is taken from the
\* configuration as it is and poisson constructs the sampler.
GeneratePoints ==
    /\ sampling = "config"
    /\ ~GridTooLarge
    /\ sampler' = [sampler EXCEPT !.grid = SamplerNew]
    /\ sampling' = "seed"
    /\ UNCHANGED terrainVars

\* generate_terrain up to generate_samples when the grid cannot be allocated:
\* vec! panics inside poisson.
GeneratePointsPanics ==
    /\ sampling = "config"
    /\ GridTooLarge
    /\ sampling' = "capacity_overflow"
    /\ UNCHANGED sampler
    /\ UNCHANGED terrainVars

\* generate_samples up to the loop were it to push and queue no first point.
SeedSampleSkipped ==
    /\ sampling = "seed"
    /\ sampling' = "loop"
    /\ UNCHANGED sampler
    /\ UNCHANGED terrainVars

\* The values Range::lerp(rand.gen()) can take: from start up to end, the
\* end itself left out unless the range is a single value.
Lerp(range) == range.start..Max2(range.start, range.end - 1)

\* generate_samples up to the loop: the first point is drawn anywhere in the
\* extent, pushed and queued.
SeedSample ==
    /\ sampling = "seed"
    /\ \E x \in Lerp(SamplerExtent.x) : \E y \in Lerp(SamplerExtent.y) :
          sampler' = [sampler EXCEPT !.points = <<<<x, y>>>>, !.queued = <<0>>]
    /\ sampling' = "loop"
    /\ UNCHANGED terrainVars

\* One iteration of the loop in which generate_sample returns a point: it is
\* pushed, queued and entered into the grid.
AcceptSample ==
    /\ sampling = "loop"
    /\ Len(sampler.points) < MaxSamples
    /\ \E near_index \in 0..(Len(sampler.queued) - 1) :
       \E near \in {sampler.points[sampler.queued[near_index + 1] + 1]} :
       \E good \in {GoodDirections(sampler, near)} :
       \E start \in 0..(Len(Directions) - 1) :
          /\ GoodAttempts(good, start) # {}
          /\ \E sample \in {Candidate(near, start, SetMin(GoodAttempts(good, start)))} :
                LET next_point_index == Len(sampler.points)
                IN  sampler' = [sampler EXCEPT
                                  !.points = Append(sampler.points, sample),
                                  !.queued = Append(sampler.queued, next_point_index),
                                  !.grid[GridIndex(SamplerCell(sample))] = next_point_index]
    /\ UNCHANGED sampling
    /\ UNCHANGED terrainVars

\* One iteration of the loop in which generate_sample returns None: the point
\* it was thrown from leaves the queue.
RetireSample ==
    /\ sampling = "loop"
    /\ \E near_index \in 0..(Len(sampler.queued) - 1) :
       \E near \in {sampler.points[sampler.queued[near_index + 1] + 1]} :
       \E good \in {GoodDirections(sampler, near)} :
       \E start \in 0..(Len(Directions) - 1) :
          /\ GoodAttempts(good, start) = {}
          /\ sampler' = [sampler EXCEPT !.queued = RemoveAt(sampler.queued, near_index)]
    /\ UNCHANGED sampling
    /\ UNCHANGED terrainVars

\* The queue is empty: generate_samples returns.
SamplesDone ==
    /\ sampling = "loop"
    /\ sampler.queued = <<>>
    /\ sampling' = "done"
    /\ UNCHANGED sampler
    /\ UNCHANGED terrainVars

PoissonInit ==
    /\ pc = "off"
    /\ mesh = "none"
    /\ graph = <<>>
    /\ elevation = <<>>
    /\ flow = <<>>
    /\ seen = {}
    /\ open = EmptyBag
    /\ flux = <<>>
    /\ cursor = 0
    /\ num_cities = 0
    /\ habitability = <<>>
    /\ scores = <<>>
    /\ cities = <<>>
    /\ nearest_city = <<>>
    /\ queue = EmptyBag
    /\ regions = <<>>
    /\ normal = <<>>
    /\ erosion = <<>>
    /\ round = 0
    /\ \E config \in TerrainConfigs :
          sampler = [radius |-> config.radius, size |-> config.size,
                     points |-> <<>>, queued |-> <<>>, grid |-> <<>>]
    /\ sampling = "config"

PoissonNext ==
    \/ GeneratePoints
    \/ GeneratePointsPanics
    \/ SeedSample
    \/ AcceptSample
    \/ RetireSample
    \/ SamplesDone

SpecPoisson == PoissonInit /\ [][PoissonNext]_vars

----------------------------------------------------------------------------
(* The claims about the pipeline (specification Spec).                      *)

\* The set of the entries of a sequence.
Range(seq) == {seq[i] : i \in DOMAIN seq}

\* generate_flow has returned.
FlowReturned == pc \notin {"flow", "flow_loop"}

\* generate_flux has returned.
FluxReturned == pc \notin {"flow", "flow_loop", "flux", "diverged"}

\* generate_habitability has returned.
HabitabilityReturned == pc \in {"cities", "regions", "done", "unwrap_panic"}

\* The city loop of Regions::new is over.
CitiesReturned == pc \in {"regions", "done", "unwrap_panic"}

\* What traverse_flow_graph yields from v, followed for one vertex more than
\* there are vertices.
Chain(v) == TraverseFlowGraph(flow, v, VertexCount + 1)

\* C1: after region growth on a connected graph with at least one city, the
\* growth returns a region array in which every vertex is assigned to one of
\* the cities and every city vertex is assigned to itself.
C1_RegionCoverage ==
    (pc \in {"done", "unwrap_panic"} /\ num_cities >= 1) =>
        /\ pc = "done"
        /\ DOMAIN regions = Vertices
        /\ \A v \in Vertices : regions[v] \in Range(cities)
        /\ \A c \in Range(cities) : regions[c] = c

\* C1's case: two cities, each with a region of more than itself.
C1_Witness ==
    /\ pc = "done"
    /\ Cardinality(Range(cities)) = 2
    /\ \A c \in Range(cities) : \E v \in Vertices : v # c /\ regions[v] = c

\* C2: in the flow array generate_flow returns, the chain of flow targets
\* from any vertex reaches a vertex without flow target within at most
\* vertex_count steps and visits no vertex twice.
C2_FlowAcyclic ==
    FlowReturned =>
        /\ pc # "diverged"
        /\ \A v \in Vertices :
              LET chain == Chain(v)
              IN  /\ FlowChainEnds(flow, v, VertexCount + 1)
                  /\ \A i, j \in DOMAIN chain : chain[i] = chain[j] => i = j

\* C2's case: a chain of three vertices or more.
C2_Witness ==
    /\ pc = "flux"
    /\ \E v \in Vertices : Len(Chain(v)) >= 3

\* C3: after generate_flow every interior vertex has a flow target among its
\* connected vertices and its chain ends at a boundary vertex; every boundary
\* vertex has no flow target.
C3_FlowTargets ==
    FlowReturned =>
        /\ \A v \in InteriorSet :
              LET chain == Chain(v)
              IN  /\ flow[v] # None
                  /\ flow[v] \in Range(ConnectedVertices(G, v))
                  /\ FlowChainEnds(flow, v, VertexCount + 1)
                  /\ chain[Len(chain)] \in BoundarySet
        /\ \A v \in BoundarySet : flow[v] = None

\* C3's case: one interior vertex drains into a boundary vertex directly,
\* another through an interior vertex.
C3_Witness ==
    /\ FlowReturned
    /\ \E v, w \in InteriorSet : flow[v] \in BoundarySet /\ flow[w] \in InteriorSet

\* C4: after generate_flux every flux is at least the rainfall (one unit), and
\* the flux of a flow target is at least the flux of the vertex that flows
\* into it.
C4_FluxMonotone ==
    FluxReturned =>
        \A v \in Vertices :
            /\ flux[v] >= 1
            /\ flow[v] # None => flux[flow[v]] >= flux[v]

\* C4's case: the flux grows along a chain through two interior vertices.
C4_Witness ==
    /\ pc = "sealevel"
    /\ \E v \in InteriorSet :
          /\ flow[v] \in InteriorSet
          /\ flux[flow[v]] > flux[v]
          /\ flux[flow[flow[v]]] > flux[flow[v]]

----------------------------------------------------------------------------
(* The claim about the sea-level fix (specification SpecSea).               *)

\* The number of entries of an array that satisfy a test.
AtOrAboveSea(arr) == Cardinality({i \in DOMAIN arr : arr[i] >= 0})

BelowSea(arr) == Cardinality({i \in DOMAIN arr : arr[i] < 0})

\* C5: after set_median_sealevel the number of entries >= 0 and the number
\* of entries < 0 differ by at most 1.  The claim says so of every elevation
\* array; it is stated here of the arrays of pairwise distinct elevations,
\* the ones that a median splits evenly, so that equal entries play no part
\* when it fails.
C5_SeaLevelBalance ==
    (pc = "terrain" /\ \A i, j \in DOMAIN elevation : elevation[i] = elevation[j] => i = j) =>
        /\ AtOrAboveSea(elevation) - BelowSea(elevation) <= 1
        /\ BelowSea(elevation) - AtOrAboveSea(elevation) <= 1

----------------------------------------------------------------------------
(* The claim about the interior sampler (specification SpecPoisson).        *)

\* C6: in every state of the sampler any two distinct sampled points, the
\* first point included, are at distance at least radius from each other.
C6_PoissonDistance ==
    \A i, j \in DOMAIN sampler.points :
        i # j => DistanceSquared(sampler.points[i], sampler.points[j])
                    >= SamplerConfig.radius * SamplerConfig.radius

----------------------------------------------------------------------------
(* The claims about the region partitioner (specification Spec).            *)

\* Whether a score is a number above zero.
Positive(x) == x # NaN /\ x > 0

\* C8 as stated: Regions::new returns num_cities cities, pairwise distinct.
C8_CitiesDistinct ==
    CitiesReturned =>
        /\ Len(cities) = num_cities
        /\ \A i, j \in DOMAIN cities : i # j => cities[i] # cities[j]

\* C8, amended: Regions::new returns num_cities cities, and a city chosen in
\* a round in which some vertex still has a score above zero differs from
\* every city chosen before it.
C8_CitiesDistinctWhileScored ==
    /\ [](CitiesReturned => Len(cities) = num_cities)
    /\ [][(/\ Len(cities') = Len(cities) + 1
           /\ \E v \in DOMAIN scores : Positive(scores[v]))
          => cities'[Len(cities')] \notin Range(cities)]_vars

\* C8's case: a second city chosen among vertices that still had a score,
\* other than the first.
C8_Witness ==
    /\ CitiesReturned
    /\ Len(cities) = 2
    /\ cities[1] # cities[2]
    /\ Positive(habitability[cities[2]])
    /\ habitability[cities[2]] < ScoreOne

\* C9 as stated: the habitability is zero for every boundary vertex and for
\* every vertex at or below sea level.
C9_ZeroAtOrBelowSea ==
    HabitabilityReturned =>
        \A v \in Vertices :
            (v \in BoundarySet \/ elevation[v] <= 0) => habitability[v] = 0

\* C9, amended: the habitability is zero for every boundary vertex and for
\* every vertex below sea level (a vertex at sea level is scored as land);
\* it is NaN in place of zero exactly when the whole array is NaN.
C9_ZeroBelowSea ==
    HabitabilityReturned =>
        \A v \in Vertices :
            (v \in BoundarySet \/ elevation[v] < 0) =>
                \/ habitability[v] = 0
                \/ \A w \in Vertices : habitability[w] = NaN

\* C9's case: an interior vertex below sea level with score zero, next to a
\* vertex at sea level that is scored.
C9_Witness ==
    /\ HabitabilityReturned
    /\ \E v, w \in InteriorSet :
          /\ elevation[v] < 0 /\ habitability[v] = 0
          /\ elevation[w] = 0 /\ Positive(habitability[w])

\* C10: every entry of the habitability array is a number in [0, 1], also
\* when no vertex is habitable.
C10_HabitabilityInUnitRange ==
    HabitabilityReturned =>
        \A v \in Vertices :
            /\ habitability[v] # NaN
            /\ 0 <= habitability[v]
            /\ habitability[v] <= ScoreOne

----------------------------------------------------------------------------
(* TerrainGraph::new on its own (specification SpecGraph): the graph is      *)
(* built over a triangulation drawn from a family.  The triangulator may     *)
(* list the triangles of a point set in any order and each triangle from any *)
(* of its corners; every mesh is taken with its triangles in each cyclic     *)
(* order and from each corner.                                               *)

\* A third mesh: the corners of a square and its centre, four triangles, all
\* of them on the hull.
PointsC == << <<-60, -60>>, <<60, -60>>, <<60, 60>>, <<-60, 60>>, <<0, 0>> >>

TrianglesC == << 0, 1, 4,   1, 2, 4,   2, 3, 4,   3, 0, 4 >>

\* The flat triangle array with every triangle listed from its corner turn.
TurnTriangles(tris, turn) ==
    [k \in 1..Len(tris) |-> tris[3 * ((k - 1) \div 3) + ((((k - 1) % 3) + turn) % 3) + 1]]

\* The flat triangle array with the triangles listed from triangle shift on.
ShiftTriangles(tris, shift) ==
    [k \in 1..Len(tris) |-> tris[((k - 1 + 3 * shift) % Len(tris)) + 1]]

Triangulations(points, tris) ==
    {[points |-> points, tris |-> ShiftTriangles(TurnTriangles(tris, turn), shift)] :
        turn \in 0..2, shift \in 0..(Len(tris) \div 3 - 1)}

MeshInputs ==
    Triangulations(PointsA, TrianglesA) \cup Triangulations(PointsB, TrianglesB)
        \cup Triangulations(PointsC, TrianglesC)

GraphInit ==
    /\ pc = "points"
    /\ mesh \in MeshInputs
    /\ graph = <<>>
    /\ elevation = <<>>
    /\ flow = <<>>
    /\ seen = {}
    /\ open = EmptyBag
    /\ flux = <<>>
    /\ cursor = 0
    /\ num_cities = 0
    /\ habitability = <<>>
    /\ scores = <<>>
    /\ cities = <<>>
    /\ nearest_city = <<>>
    /\ queue = EmptyBag
    /\ regions = <<>>
    /\ normal = <<>>
    /\ erosion = <<>>
    /\ round = 0
    /\ sampler = <<>>
    /\ sampling = "off"

\* generate_terrain builds the graph over the points.
BuildGraph ==
    /\ pc = "points"
    /\ graph' = TerrainGraphNew(mesh.points, mesh.tris)
    /\ pc' = "graph"
    /\ UNCHANGED <<mesh, elevation>>
    /\ UNCHANGED hydroVars
    /\ UNCHANGED regionVars
    /\ UNCHANGED samplerVars
    /\ UNCHANGED erosionVars

GraphNext == BuildGraph

SpecGraph == GraphInit /\ [][GraphNext]_vars

\* The three corners of the triangle that vertex v is the centroid of.
Corners(g, v) ==
    LET triangles == g.voronoi.triangulation.triangles
    IN  {triangles[3 * v], triangles[3 * v + 1], triangles[3 * v + 2]}

\* The half-edge of triangle v that runs into point p.
IncomingOf(g, v, p) ==
    LET triangles == g.voronoi.triangulation.triangles
    IN  CHOOSE e \in {3 * v, 3 * v + 1, 3 * v + 2} : triangles[NextHalfedge(e)] = p

\* The triangle that follows triangle v in the rotation around point p: the
\* one across the half-edge of v that leaves p; None past the hull.
Successor(g, v, p) ==
    LET o == g.voronoi.triangulation.halfedges[NextHalfedge(IncomingOf(g, v, p))]
    IN  IF o = EMPTY THEN None ELSE TriangleOfEdge(o)

\* C11: for every edge of the graph, the two vertex endpoints are two
\* distinct adjacent triangles, and the two point endpoints are the two input
\* points of the triangulation edge the triangles share, corners of both.
C11_EdgesConsistent ==
    pc = "graph" =>
        \A k \in DOMAIN graph.edges :
            LET edge == graph.edges[k]
                va   == edge.vertices[1]
                vb   == edge.vertices[2]
                pa   == edge.points[1]
                pb   == edge.points[2]
            IN  /\ va \in Vertices /\ vb \in Vertices
                /\ va # vb
                /\ vb \in Range(ConnectedVertices(graph, va))
                /\ va \in Range(ConnectedVertices(graph, vb))
                /\ pa \in DOMAIN graph.points /\ pb \in DOMAIN graph.points
                /\ pa # pb
                /\ {pa, pb} = Corners(graph, va) \cap Corners(graph, vb)

\* C11's case: a graph with an edge between two interior vertices and an edge
\* between an interior and a boundary vertex.
C11_Witness ==
    /\ pc = "graph"
    /\ \E j, k \in DOMAIN graph.edges :
          /\ graph.edges[j].vertices[1] \in InteriorSet
          /\ graph.edges[j].vertices[2] \in InteriorSet
          /\ graph.edges[k].vertices[1] \in InteriorSet
          /\ graph.edges[k].vertices[2] \in BoundarySet

\* C12: interior_connected_vertices returns None for every boundary vertex;
\* for every interior vertex the assertion holds and three neighbour indices
\* are returned.
C12_InteriorNeighbours ==
    pc = "graph" =>
        \A v \in Vertices :
            LET r == InteriorConnectedVertices(graph, v)
            IN  IF graph.vertex_type[v] = "Boundary"
                THEN r.tag = "None"
                ELSE /\ r.tag = "Some"
                     /\ Len(r.value) = 3
                     /\ \A i \in 1..3 : r.value[i] \in Vertices

\* C12's case: a graph with interior vertices, and with a boundary vertex all
\* of whose half-edges have an opposite.
C12_Witness ==
    /\ pc = "graph"
    /\ InteriorSet # {}
    /\ \E v \in BoundarySet : Len(ConnectedVertices(graph, v)) = 3

\* C13: for every input point p the cell lists every triangle incident to p
\* exactly once, in rotation order around p; the cell is flagged hull exactly
\* when p is a hull point, and then the ring starts at the half-edge without
\* opposite and is open.
C13_CellsComplete ==
    pc = "graph" =>
        \A p \in DOMAIN graph.points :
            LET cell == graph.voronoi.cells[p]
                ring == cell.vertices
                hull == graph.voronoi.triangulation.hull
                he   == graph.voronoi.triangulation.halfedges
            IN  /\ Range(ring) = {v \in Vertices : p \in Corners(graph, v)}
                /\ \A i, j \in DOMAIN ring : ring[i] = ring[j] => i = j
                /\ \A i \in 1..(Len(ring) - 1) : ring[i + 1] = Successor(graph, ring[i], p)
                /\ cell.hull <=> p \in hull
                /\ ring # <<>>
                /\ IF p \in hull
                   THEN /\ he[IncomingOf(graph, ring[1], p)] = EMPTY
                        /\ Successor(graph, ring[Len(ring)], p) = None
                   ELSE Successor(graph, ring[Len(ring)], p) = ring[1]

\* C13's case: a hull point whose first incoming half-edge is not the one
\* without opposite, with a ring of three triangles or more, and a point off
\* the hull with a closed ring.
C13_Witness ==
    /\ pc = "graph"
    /\ \E p, q \in DOMAIN graph.points :
          LET t   == graph.voronoi.triangulation
              inc == {e \in DOMAIN t.triangles : t.triangles[NextHalfedge(e)] = p}
          IN  /\ p \in t.hull
              /\ t.halfedges[SetMin(inc)] # EMPTY
              /\ Len(graph.voronoi.cells[p].vertices) >= 3
              /\ q \notin t.hull
              /\ Len(graph.voronoi.cells[q].vertices) >= 4

----------------------------------------------------------------------------
(* The claims about the entry of generate_terrain and the interior sampler   *)
(* (specification SpecPoisson).                                              *)

\* Whether a configuration is invalid: a radius that is not positive, or a
\* domain of size zero.
InvalidConfig(config) ==
    \/ config.radius <= 0
    \/ config.size[1] = 0
    \/ config.size[2] = 0

\* C14: an invalid configuration is rejected with a configuration error before
\* point sampling begins: generate_terrain never gets past the configuration,
\* neither into the sampler nor into a panic.
C14_InvalidConfigRejected ==
    InvalidConfig(SamplerConfig) => sampling \in {"config", "config_error"}

\* Whether the radius is at least the width and the height of the domain.
RadiusCoversDomain(config) ==
    /\ config.radius >= config.size[1]
    /\ config.radius >= config.size[2]

\* Whether the radius is greater than the diagonal of the domain.
RadiusExceedsDiagonal(config) ==
    config.radius * config.radius >
        config.size[1] * config.size[1] + config.size[2] * config.size[2]

\* C16 as stated: when the radius is at least the domain size the sampler
\* returns no interior sample, so that generate_points returns the boundary
\* ring alone.
C16_OnlyBoundaryRing ==
    (sampling = "done" /\ RadiusCoversDomain(SamplerConfig)) => sampler.points = <<>>

\* C16 as the code has it: when the radius is at least the domain size the
\* sampler returns at least one interior sample, the first point drawn in the
\* extent, and no other when the radius is greater than the domain's diagonal.
C16_SeedAlwaysSampled ==
    (sampling = "done" /\ RadiusCoversDomain(SamplerConfig)) =>
        /\ Len(sampler.points) >= 1
        /\ RectContains(SamplerExtent, sampler.points[1])
        /\ RadiusExceedsDiagonal(SamplerConfig) => Len(sampler.points) = 1

\* C16's case: the sampler has returned on the 4 x 4 domain, whose width is
\* less than the radius and whose diagonal is not, with more samples than the
\* first.
C16_Witness ==
    /\ sampling = "done"
    /\ SamplerConfig.size = <<4, 4>>
    /\ RadiusCoversDomain(SamplerConfig)
    /\ Len(sampler.points) >= 2

\* The grid cells of the sampler that hold no point.
EmptyCells == {c \in DOMAIN sampler.grid : sampler.grid[c] = None}

\* What bounds the iterations the loop has left: an accepted sample takes an
\* empty cell and joins the queue, a retired point leaves the queue.
LoopBudget == 2 * Cardinality(EmptyCells) + Len(sampler.queued)

\* C17: the sampling loop terminates.  Each iteration either accepts one new
\* point and queues it, or retires one queued point, and lowers the budget of
\* the loop, which is never negative; there are never more points than grid
\* cells and the first point, fewer than the runs are followed to, so that no
\* iteration is cut off; the loop is left exactly when the queue is empty.
C17_SamplingTerminates ==
    /\ [][(sampling = "loop" /\ sampling' = "loop") =>
            /\ LoopBudget' < LoopBudget
            /\ \/ /\ sampler'.points = Append(sampler.points, sampler'.points[Len(sampler'.points)])
                  /\ sampler'.queued = Append(sampler.queued, Len(sampler.points))
               \/ /\ sampler'.points = sampler.points
                  /\ Len(sampler'.queued) = Len(sampler.queued) - 1]_vars
    /\ [](sampling \in {"loop", "done"} =>
            /\ Len(sampler.points) <= GridRows * GridCols + 1
            /\ Len(sampler.points) < MaxSamples)
    /\ [](sampling = "loop" =>
            /\ LoopBudget >= 0
            /\ sampler.queued = <<>> => ENABLED SamplesDone)
    /\ [](sampling = "done" => sampler.queued = <<>>)

\* C17's case: the loop has ended on the 6 x 6 domain after accepting as many
\* points as the grid allows and retiring every one of them.
C17_Witness ==
    /\ sampling = "done"
    /\ SamplerConfig.size = <<6, 6>>
    /\ Len(sampler.points) = GridRows * GridCols + 1
    /\ sampler.queued = <<>>

----------------------------------------------------------------------------
(* More claims about the region partitioner (specification Spec).           *)

\* C15: Regions::new is total for every city count from zero on: it does not
\* abort, and the region array it returns has one entry per vertex.
C15_RegionsTotal ==
    /\ pc # "unwrap_panic"
    /\ pc = "done" => VecLen(regions) = VertexCount

\* The travel cost of the edge from u to its neighbour v.
EdgeCost(u, v) == TravelCost(graph, elevation, flux, u, v)

\* One round of relaxation.  dist holds a pair <<vertex, cost>> for each
\* vertex reached so far, with the least summed cost known for it; the round
\* improves the costs by one more edge.  An edge whose cost is NaN lowers
\* nothing.
Relax(dist) ==
    LET step(p) == {<<v, p[2] + EdgeCost(p[1], v)>> :
                      v \in {w \in Range(ConnectedVertices(graph, p[1])) :
                                EdgeCost(p[1], w) # NaN}}
        cand    == dist \cup UNION {step(p) : p \in dist}
    IN  {p \in cand : \A q \in cand : q[1] = p[1] => p[2] <= q[2]}

\* The least summed per-edge travel cost of a graph path from a city to each
\* vertex, over the paths of at most n edges on top of those dist accounts
\* for.
RECURSIVE PathCosts(_, _)
PathCosts(dist, n) ==
    IF n = 0 THEN dist
    ELSE LET next == Relax(dist)
         IN  IF next = dist THEN dist ELSE PathCosts(next, n - 1)

\* The least summed per-edge travel cost from city to every vertex it
\* reaches, as pairs <<vertex, cost>>.
CheapestPaths(city) == PathCosts({<<city, 0>>}, VertexCount - 1)

\* The key under which the entry that gave vert to city was pushed and popped.
PoppedCost(city, vert) == TravelCost(graph, elevation, flux, city, vert)

\* C18: when generate_regions has assigned a vertex to a city, no city has a
\* graph path to that vertex whose summed per-edge travel cost is lower than
\* the cost under which the vertex was popped.
C18_MinimumCumulativeCost ==
    pc = "done" =>
        \A c \in Range(cities) :
            \A p \in CheapestPaths(c) :
                (p[1] \notin Range(cities) /\ PoppedCost(regions[p[1]], p[1]) # NaN) =>
                    p[2] >= PoppedCost(regions[p[1]], p[1])

----------------------------------------------------------------------------
(* Another claim about the sea-level fix (specification SpecSea).           *)

\* The median of an array as the claim has it: the middle element of the
\* sorted values when their number is odd, the mean of the two middle elements
\* when it is even.
MiddleOfSorted(arr) ==
    LET sorted == Sorted(arr)
        len    == VecLen(arr)
        mid    == len \div 2
    IN  IF len % 2 = 0
        THEN (sorted[mid - 1] + sorted[mid]) \div 2
        ELSE sorted[mid]

\* C19: for every non-empty elevation array the sea-level fix completes
\* without failure and subtracts the median of the array from every vertex.
C19_SubtractsMedian ==
    [][(pc = "sealevel" /\ VecLen(elevation) >= 1) =>
          /\ pc' = "terrain"
          /\ elevation' = [i \in DOMAIN elevation |->
                              elevation[i] - MiddleOfSorted(elevation)]]_vars

----------------------------------------------------------------------------
(* Another claim about the hydrology (specification Spec).                  *)

\* For each interior vertex, the set of the vertices its flow chain visits,
\* itself included, as pairs <<vertex, visited>>.
Drainage == {<<u, Range(Chain(u))>> : u \in InteriorSet}

\* The number of interior vertices upstream of v: those other than v whose
\* flow chain passes through v.
Upstream(drainage, v) == Cardinality({d \in drainage : d[1] # v /\ v \in d[2]})

\* C20 as stated: after generate_flux the flux of every vertex, counted in
\* rainfall units, is 1 + the number of interior vertices upstream of it.
C20_FluxCountsUpstream ==
    pc = "sealevel" =>
        LET drainage == Drainage
        IN  \A v \in Vertices : flux[v] = 1 + Upstream(drainage, v)

\* C20 as the code has it: after generate_flux the flux of a boundary vertex
\* is 1 + the number of interior vertices upstream of it, the flux of an
\* interior vertex one rainfall unit more, the one its own walk adds to it.
C20_FluxCountsDraining ==
    pc = "sealevel" =>
        LET drainage == Drainage
        IN  \A v \in Vertices :
                flux[v] = 1 + Upstream(drainage, v)
                            + (IF v \in InteriorSet THEN 1 ELSE 0)

\* C20's case: generate_flux has returned, an interior vertex has an interior
\* vertex upstream and a boundary vertex has two.
C20_Witness ==
    /\ pc = "sealevel"
    /\ \E v \in InteriorSet : Upstream(Drainage, v) >= 1
    /\ \E b \in BoundarySet : Upstream(Drainage, b) >= 2

----------------------------------------------------------------------------
(* The claims about the two queue-driven searches (specification Spec).     *)

\* C21: a single winner per vertex.  During region growth the city of a
\* vertex, once written, never changes.  During the priority-flood the flow
\* target of a vertex is written only while the vertex is unseen and never
\* changes afterwards, a vertex is pushed only while it is unseen, a seen
\* vertex stays seen, and the queue never holds two entries for one vertex.
C21_SingleWinner ==
    /\ [][
          /\ (pc = "regions" /\ pc' = "regions") =>
                \A v \in Vertices :
                    nearest_city[v] # None => nearest_city'[v] = nearest_city[v]
          /\ (pc = "flow_loop" /\ pc' = "flow_loop") =>
                /\ seen \subseteq seen'
                /\ \A v \in Vertices :
                      flow'[v] # flow[v] => (flow[v] = None /\ v \notin seen)
                /\ \A e \in BagToSet(open') :
                      CopiesIn(e, open') > CopiesIn(e, open) =>
                          (e.value \notin seen /\ e.value \in seen')
       ]_vars
    /\ [](pc = "flow_loop" =>
            /\ \A e \in BagToSet(open) : e.value \in seen /\ CopiesIn(e, open) = 1
            /\ \A e, f \in BagToSet(open) : e.value = f.value => e = f
            /\ \A v \in Vertices : flow[v] # None => v \in seen)

\* C21's case: region growth with two cities has an entry in its queue for a
\* vertex the other city has won already, on a terrain whose flood gave an
\* interior vertex an interior flow target.
C21_Witness ==
    /\ pc = "regions"
    /\ \E e \in BagToSet(queue) :
          nearest_city[e.value.vert] \notin {None, e.value.city}
    /\ \E v \in InteriorSet : flow[v] \in InteriorSet

----------------------------------------------------------------------------
(* The claims about calculate_travel_cost and the habitability (Spec).      *)

\* Whether exactly one of two vertices lies below sea level.
Straddle(a, b) == (elevation[a] < 0) # (elevation[b] < 0)

\* C22 as stated: for any two vertices of the finished terrain that straddle
\* sea level the travel cost from the one to the other is their distance
\* times 1000.
C22_StraddleCost ==
    pc = "terrain" =>
        \A a, b \in Vertices :
            Straddle(a, b) => EdgeCost(a, b) = Distance(graph, a, b) * CoastCost * 100

\* C22 as the code has it: from a vertex at or above sea level to one below
\* the travel cost is the distance times 1000; from a vertex below sea level
\* it is the distance times 100, wherever the other vertex lies.
C22_LandToWaterCost ==
    pc = "terrain" =>
        \A a, b \in Vertices :
            /\ (elevation[a] >= 0 /\ elevation[b] < 0) =>
                    EdgeCost(a, b) = Distance(graph, a, b) * CoastCost * 100
            /\ elevation[a] < 0 =>
                    EdgeCost(a, b) = Distance(graph, a, b) * WaterCost * 100

\* C22's case: a finished terrain with two neighbours that straddle sea level,
\* an interior vertex on land among them, and two neighbours below sea level.
C22_Witness ==
    /\ pc = "terrain"
    /\ \E a \in InteriorSet : \E b \in Range(ConnectedVertices(graph, a)) :
          elevation[a] >= 0 /\ elevation[b] < 0
    /\ \E a \in Vertices : \E b \in Range(ConnectedVertices(graph, a)) :
          elevation[a] < 0 /\ elevation[b] < 0

\* The distance from coordinate c to the nearer end of a range that holds it
\* (negative outside the range).
EdgeDistance(range, c) == Min2(c - range.start, range.end - c)

\* C23: the raw habitability of a scored vertex (an interior vertex at or
\* above sea level) is the flux factor attenuated on each axis by the ramp of
\* the distance to the nearest domain edge on that axis, whatever the width
\* and the height of the domain.
C23_EdgeAttenuation ==
    pc = "terrain" =>
        \A i \in InteriorSet :
            elevation[i] >= 0 =>
                RawHabitability(graph, Extent(mesh), elevation, flux, i) =
                    MapClamp(flux[i] * FluxCapInverse, VecLen(flux))
                      * MapClamp(EdgeDistance(Extent(mesh).x, graph.vertices[i][1]), EdgeRamp)
                      * MapClamp(EdgeDistance(Extent(mesh).y, graph.vertices[i][2]), EdgeRamp)

----------------------------------------------------------------------------
(* generate_boundary_points: the two rings of points around the domain.      *)

\* Coordinates of the boundary points are kept in 1/BoundaryUnit of a world
\* unit, so that every interpolation below is exact.
BoundaryUnit == 840

BoundarySizes == {2, 4, 6, 8, 10}

BoundaryRadii == {2, 4, 5}

\* util::expand_rect: the rectangle with each side moved out by the margin.
ExpandRect(rect, margin) ==
    [x |-> [start |-> rect.x.start - margin, end |-> rect.x.end + margin],
     y |-> [start |-> rect.y.start - margin, end |-> rect.y.end + margin]]

\* Rect::corners.
RectCorners(rect) ==
    << <<rect.x.start, rect.y.end>>, <<rect.x.end, rect.y.end>>,
       <<rect.x.end, rect.y.start>>, <<rect.x.start, rect.y.start>> >>

\* map_range(i, 0, in_max, out_min, out_max).
MapRange(i, in_max, out_min, out_max) ==
    out_min + (i * (out_max - out_min)) \div in_max

\* The points pushed by "for i in 1..n": two per step, the first on the side
\* at lo and the second on the side at hi, the coordinate along the side
\* interpolated over in_max steps from out_min to out_max.
RingPoints(n, in_max, out_min, out_max, lo, hi, axis) ==
    [k \in 1..(2 * (n - 1)) |->
        LET c == MapRange((k + 1) \div 2, in_max, out_min, out_max)
            side == IF k % 2 = 1 THEN lo ELSE hi
        IN  IF axis = "x" THEN <<c, side>> ELSE <<side, c>>]

\* generate_boundary_points(extent, distance), extent and distance in
\* 1/BoundaryUnit.
BoundaryPoints(extent, distance) ==
    LET inner_extent == ExpandRect(extent, distance)
        outer_extent == ExpandRect(extent, distance * 2)
        min_x == inner_extent.x.start
        max_x == inner_extent.x.end
        min_y == inner_extent.y.start
        max_y == inner_extent.y.end
        nx == (max_x - min_x) \div distance - 1
        ny == (max_y - min_y) \div distance - 1
        half == distance \div 2
    IN  RectCorners(inner_extent) \o RectCorners(outer_extent)
          \o RingPoints(nx, nx, min_x, max_x, min_y, max_y, "x")
          \o RingPoints(ny, nx, min_y, max_y, min_x, max_x, "y")
          \o RingPoints(nx + 1, nx + 1, min_x - half, max_x + half,
                        min_y - distance, max_y + distance, "x")
          \o RingPoints(ny + 1, ny + 1, min_y - half, max_y + half,
                        min_x - distance, max_x + distance, "y")

\* The domain of the sampler's configuration, in 1/BoundaryUnit.
BoundaryExtent ==
    LET e == ExtentOfSize(sampler.size[1], sampler.size[2])
    IN  [x |-> [start |-> e.x.start * BoundaryUnit, end |-> e.x.end * BoundaryUnit],
         y |-> [start |-> e.y.start * BoundaryUnit, end |-> e.y.end * BoundaryUnit]]

\* generate_points appends the boundary points to the interior samples.
GenerateBoundaryPoints ==
    /\ sampling = "boundary"
    /\ sampler' = [sampler EXCEPT
                      !.points = @ \o BoundaryPoints(BoundaryExtent,
                                                     sampler.radius * BoundaryUnit)]
    /\ sampling' = "points"
    /\ UNCHANGED terrainVars

BoundaryInit ==
    /\ pc = "off"
    /\ mesh = "none"
    /\ graph = <<>>
    /\ elevation = <<>>
    /\ flow = <<>>
    /\ seen = {}
    /\ open = EmptyBag
    /\ flux = <<>>
    /\ cursor = 0
    /\ num_cities = 0
    /\ habitability = <<>>
    /\ scores = <<>>
    /\ cities = <<>>
    /\ nearest_city = <<>>
    /\ queue = EmptyBag
    /\ regions = <<>>
    /\ normal = <<>>
    /\ erosion = <<>>
    /\ round = 0
    /\ \E radius \in BoundaryRadii : \E w \in BoundarySizes : \E h \in BoundarySizes :
          sampler = [radius |-> radius, size |-> <<w, h>>,
                     points |-> <<>>, queued |-> <<>>, grid |-> <<>>]
    /\ sampling = "boundary"

SpecBoundary == BoundaryInit /\ [][GenerateBoundaryPoints]_vars

\* The point lies on the perimeter of the rectangle.
OnPerimeter(rect, p) ==
    /\ rect.x.start <= p[1] /\ p[1] <= rect.x.end
    /\ rect.y.start <= p[2] /\ p[2] <= rect.y.end
    /\ p[1] \in {rect.x.start, rect.x.end} \/ p[2] \in {rect.y.start, rect.y.end}

\* The coordinates in the set are in arithmetic progression: the gap between
\* any two consecutive ones is the same.
EvenlySpaced(coords) ==
    \A a, b, c, d \in coords :
        /\ a < b /\ ~ \E m \in coords : a < m /\ m < b
        /\ c < d /\ ~ \E m \in coords : c < m /\ m < d
        => b - a = d - c

\* C24: whatever the width and height of the domain, every boundary point
\* lies on the perimeter of the domain expanded by one or by two radii, the
\* eight corners of the two rectangles are among the points, and the points
\* strictly inside each side of each rectangle are evenly spaced.
C24_BoundaryRings ==
    sampling = "points" =>
        LET distance == sampler.radius * BoundaryUnit
            inner == ExpandRect(BoundaryExtent, distance)
            outer == ExpandRect(BoundaryExtent, distance * 2)
            pts == Range(sampler.points)
        IN  /\ \A p \in pts : OnPerimeter(inner, p) \/ OnPerimeter(outer, p)
            /\ Range(RectCorners(inner)) \cup Range(RectCorners(outer)) \subseteq pts
            /\ \A rect \in {inner, outer} :
                  /\ \A y \in {rect.y.start, rect.y.end} :
                        EvenlySpaced({p[1] : p \in {q \in pts : q[2] = y}}
                                        \ {rect.x.start, rect.x.end})
                  /\ \A x \in {rect.x.start, rect.x.end} :
                        EvenlySpaced({p[2] : p \in {q \in pts : q[1] = x}}
                                        \ {rect.y.start, rect.y.end})

\* The world units one entry of the erosion array takes off the elevation.
Lowering(e) == (e * ErodeScalar) \div ErosionOne

\* C25: TerrainData::new runs one hydrology pass, then exactly ErosionRounds
\* rounds, each subtracting erosion * 500 from the elevation and then running
\* the whole pass again on the new elevation, and only then the sea-level fix:
\* the sea-level fix starts after the last round; the elevation changes in no
\* step but erode and the sea-level fix; the normals and the erosion at the
\* end of a pass are those of the elevation and flux of that pass; and the
\* sea-level fix leaves the flow, flux, normals and erosion as they are.
C25_ErosionSchedule ==
    /\ [](pc \in {"sealevel", "terrain"} => round = ErosionRounds)
    /\ [](pc \in {"erode", "sealevel"} =>
            /\ normal = GenerateNormalOf(G, elevation)
            /\ erosion = GenerateErosionOf(G, flux, normal)
            /\ cursor = Len(G.interior) + 1
            /\ open = EmptyBag)
    /\ [][
            /\ pc = "erode" =>
                  /\ round < ErosionRounds /\ round' = round + 1 /\ pc' = "flow"
                  /\ \A i \in Vertices :
                        elevation'[i] = elevation[i] - 2 * Lowering(erosion[i])
            /\ pc \notin {"erode", "sealevel"} => elevation' = elevation /\ round' = round
            /\ pc = "sealevel" => UNCHANGED <<flow, flux, normal, erosion, round>>
            /\ pc' = "sealevel" /\ pc # "sealevel" => pc = "erosion"
       ]_vars

\* C25's case: the run is over after the erosion loop, the last pass having
\* found erosion on a sloping vertex.
C25_Witness ==
    /\ pc = "terrain"
    /\ round = ErosionRounds
    /\ \E i \in InteriorSet : erosion[i] > 0 /\ normal[i][3] # NormalOne

\* C26: every entry of every erosion array lies between EROSION_MIN and
\* EROSION_MAX (0 and 0.02), and a round of erode lowers each elevation by at
\* least 0 and at most 10 world units, raising none.
C26_ErosionBounded ==
    /\ [](erosion # <<>> =>
            \A i \in Vertices : ErosionMin <= erosion[i] /\ erosion[i] <= ErosionMax)
    /\ [][
            pc = "erode" =>
                \A i \in Vertices :
                    /\ elevation'[i] <= elevation[i]
                    /\ elevation[i] - elevation'[i] <= 2 * Lowering(ErosionMax)
       ]_vars

\* C26's case: a round has eroded one vertex by the maximum and another by
\* less than the maximum.
C26_Witness ==
    /\ pc = "flow"
    /\ round >= 1
    /\ \E i, j \in Vertices :
          /\ erosion[i] = ErosionMax
          /\ erosion[j] > ErosionMin /\ erosion[j] < ErosionMax

\* C30: on a boundary vertex the normal is zero and the erosion is 0 in every
\* pass, and no step of the erosion loop changes the elevation of a boundary
\* vertex.
C30_BoundaryUntouched ==
    /\ [](normal # <<>> => \A b \in BoundarySet : normal[b] = <<0, 0, 0>>)
    /\ [](erosion # <<>> => \A b \in BoundarySet : erosion[b] = 0)
    /\ [][
            pc # "sealevel" => \A b \in BoundarySet : elevation'[b] = elevation[b]
       ]_vars

\* C30's case: the erosion loop is over, it has lowered an interior vertex,
\* and every boundary vertex is where it started.
C30_Witness ==
    /\ pc = "sealevel"
    /\ round = ErosionRounds
    /\ \E i \in InteriorSet : elevation[i] \notin ErosionLevels
    /\ \A i \in DOMAIN G.boundary : elevation[G.boundary[i]] = 2 * i

\* C27: in every round of the city loop the city chosen has a score that no
\* vertex exceeds; the round leaves the city's score 0, multiplies every score
\* by a factor between 0 and 1 that is 0 at the city and 1 at a distance of
\* 100 or more, and raises no score.
C27_CityRound ==
    [][
        pc = "cities" /\ Len(cities') = Len(cities) + 1 =>
            LET city == cities'[Len(cities')]
            IN  /\ \A j \in DOMAIN scores : OrderedLeq(scores[j], scores[city])
                /\ scores'[city] = 0
                /\ \A i \in DOMAIN scores : scores'[i] <= scores[i]
                /\ \A i \in DOMAIN scores :
                      \E factor \in 0..FactorOne :
                          /\ scores'[i] = (scores[i] * factor) \div FactorOne
                          /\ i = city => factor = 0
                          /\ Distance(graph, i, city) >= CityRamp => factor = FactorOne
    ]_vars

\* The vertices reached from the vertices of start along edges of the graph
\* without leaving the set within.
RECURSIVE Connected(_, _, _)
Connected(g, start, within) ==
    LET more == {u \in within \ start :
                    \E n \in Range(ConnectedVertices(g, u)) : n \in start}
    IN  IF more = {} THEN start ELSE Connected(g, start \cup more, within)

\* C28: when generate_flow has returned, the highest elevation on the flow
\* chain of a vertex v (v and the boundary vertex it ends on included) is no
\* greater than the highest elevation on any path of the graph from v to a
\* boundary vertex: below that level, v is cut off from the boundary.
C28_MinimaxDrainage ==
    pc = "flux" /\ cursor = 1 =>
        \A v \in Vertices :
            LET chain == TraverseFlowGraph(flow, v, VertexCount + 1)
                top   == SetMax({elevation[chain[k]] : k \in DOMAIN chain})
            IN  /\ G.vertex_type[chain[Len(chain)]] = "Boundary"
                /\ \A level \in {elevation[u] : u \in Vertices} :
                      level < top =>
                          LET low == {u \in Vertices : elevation[u] <= level}
                          IN  v \notin Connected(G, BoundarySet \cap low, low)

\* C28's case: generate_flow has returned, and some vertex drains over a chain
\* of three vertices or more although a neighbour of it lies higher than
\* anything on its chain.
C28_Witness ==
    /\ pc = "flux" /\ cursor = 1
    /\ \E v \in InteriorSet :
          LET chain == TraverseFlowGraph(flow, v, VertexCount + 1)
              top   == SetMax({elevation[chain[k]] : k \in DOMAIN chain})
          IN  /\ Len(chain) >= 3
              /\ \E n \in Range(ConnectedVertices(G, v)) : elevation[n] > top

\* The vertices whose entry in the array of cities is city.
Members(arr, city) == {v \in DOMAIN arr : arr[v] = city}

\* C29: region contiguity.  Whenever region growth gives a vertex to a city,
\* one of the neighbours of the vertex belongs to that city already; so at
\* every step of the growth, and in the region array returned, the vertices of
\* each city are connected in the graph and the city is one of them.
C29_RegionContiguity ==
    /\ [][
          pc = "regions" /\ pc' = "regions" =>
              \A v \in Vertices :
                  nearest_city'[v] # nearest_city[v] =>
                      \E n \in Range(ConnectedVertices(G, v)) :
                          nearest_city[n] = nearest_city'[v]
       ]_vars
    /\ [](pc = "regions" =>
            \A city \in Range(cities) :
                /\ nearest_city[city] = city
                /\ Connected(G, {city}, Members(nearest_city, city))
                      = Members(nearest_city, city))
    /\ [](pc = "done" =>
            \A v \in Vertices :
                /\ regions[v] \in Range(cities)
                /\ regions[regions[v]] = regions[v]
                /\ v \in Connected(G, {regions[v]}, Members(regions, regions[v])))

\* C29's case: the region array is returned for two cities, and a vertex that
\* is no neighbour of its city belongs to it.
C29_Witness ==
    /\ pc = "done"
    /\ Cardinality(Range(cities)) = 2
    /\ \E v \in Vertices :
          /\ regions[v] # v
          /\ regions[v] \notin Range(ConnectedVertices(G, v))

====
